---- MODULE Spec2Model ----
(***************************************************************************)
(* Model of bin/deepstate/executors/fuzz/libfuzzer.py: the LibFuzzer       *)
(* frontend (session preparation, command synthesis, stats parsing).       *)
(*                                                                         *)
(* Conventions                                                             *)
(*   - a Python Optional[T] is a sequence of length <= 1: <<>> is None.    *)
(*   - a path is a sequence of components; "/" as first component marks an *)
(*     absolute path; a trailing "" component is a trailing separator.     *)
(*   - a byte string (a line of stderr) is a sequence of 1-char strings.   *)
(***************************************************************************)
EXTENDS Integers, Sequences, FiniteSets, TLC

VARIABLES
  self,      \* the LibFuzzer object's attributes (record)
  fs,        \* the directories/entries that exist below output_test_dir
  phase,     \* position of the frontend's main flow
  error,     \* the exception that ended the flow ("" when none)
  built,     \* Optional: the token list last returned by the cmd property
  stderr,    \* lines the engine has written and nobody has read yet
  emitted,   \* every line the engine has written so far, in order
  closed,    \* proc.stderr.closed
  call,      \* position inside a running populate_stats call (record)
  resuming,  \* Optional: which branch of pre_exec was taken (line 78)
  supplied_seeds  \* the --input_seeds argument as the caller gave it

vars == <<self, fs, phase, error, built, stderr, emitted, closed, call, resuming,
          supplied_seeds>>

None == <<>>
Some(x) == <<x>>

(***************************************************************************)
(* Bounds of the model                                                     *)
(***************************************************************************)
MaxArgs == 2      \* longest passthrough list (fuzzer_args)
MaxEmit == 4      \* lines the engine writes to stderr in one run

(***************************************************************************)
(* Paths and the filesystem below output_test_dir                          *)
(***************************************************************************)
Cwd == <<"/", "cwd">>
OutDir == <<"/", "out">>

\* os.path.join(p, c) for a relative single component c
Join(p, c) == Append(p, c)

\* os.path.abspath(p)
Abspath(p) == IF Len(p) > 0 /\ p[1] = "/" THEN p ELSE Cwd \o p

SyncDir == Join(OutDir, "sync_dir")
MainDir == Join(OutDir, "the_fuzzer")
QueueDir == Join(SyncDir, "queue")
CrashesDir == Join(MainDir, "crashes")
OtherEntry == Join(OutDir, "other")

FsEntries == {SyncDir, MainDir, QueueDir, CrashesDir, OtherEntry}

\* a directory tree: an entry exists only inside an existing parent
WellFormedFs(f) ==
  /\ (QueueDir \in f => SyncDir \in f)
  /\ (CrashesDir \in f => MainDir \in f)

\* os.listdir(d)
Listdir(f, d) == {p \in f : Len(p) = Len(d) + 1 /\ SubSeq(p, 1, Len(d)) = d}

\* the proper ancestors of p strictly below output_test_dir, and p itself
WithParents(p) ==
  {SubSeq(p, 1, n) : n \in (Len(OutDir) + 1)..Len(p)}

(***************************************************************************)
(* Helpers of the base class FuzzerFrontend (deepstate.core)               *)
(***************************************************************************)
\* check_required_directories(dirs): TRUE iff it raises
CheckRequiredDirectoriesRaises(f, dirs) == \E d \in dirs : d \notin f

\* setup_new_session(dirs): the filesystem after creating every directory
\* of dirs together with its missing parents
SetupNewSession(f, dirs) == f \cup UNION {WithParents(d) : d \in dirs}

(***************************************************************************)
(* LibFuzzer.pre_exec                                                      *)
(***************************************************************************)
\* lines 56-58 and 65-66: the harness binary becomes the fuzzer executable
OverrideFuzzerExe(s) ==
  IF s.binary # None
    THEN [s EXCEPT !.binary = Some(Abspath(s.binary[1])),
                   !.fuzzer_exe = Some(Abspath(s.binary[1]))]
    ELSE s

\* variant: the crash directory computed below sync_dir
SessionDirsCrashInSync(s) ==
  [s EXCEPT !.push_dir = Some(Join(Join(s.output_test_dir, "sync_dir"), "queue")),
            !.pull_dir = Some(Join(Join(s.output_test_dir, "sync_dir"), "queue")),
            !.crash_dir = Some(Join(Join(s.output_test_dir, "sync_dir"), "crashes"))]

\* lines 71-75
SessionDirs(s) ==
  [s EXCEPT !.push_dir = Some(Join(Join(s.output_test_dir, "sync_dir"), "queue")),
            !.pull_dir = Some(Join(Join(s.output_test_dir, "sync_dir"), "queue")),
            !.crash_dir = Some(Join(Join(s.output_test_dir, "the_fuzzer"), "crashes"))]

\* line 78
IsResume(s, f) == Cardinality(Listdir(f, s.output_test_dir)) > 0

\* variant: the resume branch keeps input_seeds
ResumeOrNewKeepSeeds(s, f) ==
  IF IsResume(s, f)
    THEN IF CheckRequiredDirectoriesRaises(f, {s.push_dir[1], s.pull_dir[1], s.crash_dir[1]})
           THEN [self |-> s, fs |-> f, error |-> "FuzzFrontendError: missing directory",
                 resuming |-> None]
           ELSE [self |-> s, fs |-> f, error |-> "", resuming |-> Some(TRUE)]
    ELSE [self |-> s, fs |-> SetupNewSession(f, {s.pull_dir[1], s.crash_dir[1]}),
          error |-> "", resuming |-> Some(FALSE)]

\* variant: the resume branch creates what is missing instead of checking
ResumeOrNewCreateMissing(s, f) ==
  IF IsResume(s, f)
    THEN [self |-> [s EXCEPT !.input_seeds = None],
          fs |-> SetupNewSession(f, {s.pull_dir[1], s.crash_dir[1]}),
          error |-> "", resuming |-> Some(TRUE)]
    ELSE [self |-> s, fs |-> SetupNewSession(f, {s.pull_dir[1], s.crash_dir[1]}),
          error |-> "", resuming |-> Some(FALSE)]

\* lines 77-83, on an object whose session directories are computed
ResumeOrNew(s, f) ==
  IF IsResume(s, f)
    THEN IF CheckRequiredDirectoriesRaises(f, {s.push_dir[1], s.pull_dir[1], s.crash_dir[1]})
           THEN [self |-> s, fs |-> f, error |-> "FuzzFrontendError: missing directory",
                 resuming |-> None]
           ELSE [self |-> [s EXCEPT !.input_seeds = None], fs |-> f, error |-> "",
                 resuming |-> Some(TRUE)]
    ELSE [self |-> s, fs |-> SetupNewSession(f, {s.pull_dir[1], s.crash_dir[1]}),
          error |-> "", resuming |-> Some(FALSE)]

\* variant: the blackbox check made after the session layout
PreExecOutcomeLateBlackbox(s, f) ==
  LET s1 == OverrideFuzzerExe(s)
      out == ResumeOrNew(SessionDirs(s1), f) IN
  IF s1.binary = None
    THEN [self |-> s1, fs |-> f, error |-> "FuzzFrontendError: Binary not set",
          resuming |-> None]
  ELSE IF s1.blackbox = TRUE /\ out.error = ""
    THEN [self |-> out.self, fs |-> out.fs,
          error |-> "FuzzFrontendError: Blackbox not supported", resuming |-> None]
  ELSE out

\* the whole of pre_exec: the object, the filesystem and the exception after it
PreExecOutcome(s, f) ==
  LET s1 == OverrideFuzzerExe(s) IN
  IF s1.binary = None
    THEN [self |-> s1, fs |-> f, error |-> "FuzzFrontendError: Binary not set",
          resuming |-> None]
  ELSE IF s1.blackbox = TRUE
    THEN [self |-> s1, fs |-> f, error |-> "FuzzFrontendError: Blackbox not supported",
          resuming |-> None]
  ELSE ResumeOrNew(SessionDirs(s1), f)

(***************************************************************************)
(* LibFuzzer.cmd                                                           *)
(***************************************************************************)
\* the text "{}".format(x) of a value: absent, an int, a float, a string/path
NoVal == [k |-> "none", n |-> 0, f |-> 0, s |-> <<>>]
IntVal(n) == [k |-> "int", n |-> n, f |-> 0, s |-> <<>>]
FloatVal(n, f) == [k |-> "float", n |-> n, f |-> f, s |-> <<>>]
StrVal(s) == [k |-> "str", n |-> 0, f |-> 0, s |-> s]

\* Python's int / int: a float; whole part and thousandths of t / 1000
TrueDivThousand(t) == FloatVal(t \div 1000, t % 1000)

\* a token "-key=val" ("-key" when val is NoVal); sec is the block of cmd
\* that appended it
Flag(sec, key, val) == [sec |-> sec, dash |-> TRUE, key |-> key, val |-> val]
\* a positional token: the bare path
Positional(path) == [sec |-> "positional", dash |-> FALSE, key |-> "", val |-> StrVal(path)]

\* lines 95-103
GuaranteedArgs(s) ==
  << Flag("required", "rss_limit_mb", IntVal(s.mem_limit)),
     Flag("required", "max_len", IntVal(s.max_input_size)),
     Flag("required", "artifact_prefix", StrVal(s.crash_dir[1] \o <<"">>)),
     Flag("required", "workers", IntVal(1)),
     Flag("required", "reload", IntVal(1)),
     Flag("required", "runs", IntVal(-1)) >>

\* lines 105-109
FuzzerArgs(args) ==
  [i \in 1..Len(args) |->
     IF args[i][2] # None
       THEN Flag("passthrough", args[i][1], StrVal(args[i][2]))
       ELSE Flag("passthrough", args[i][1], NoVal)]

\* lines 112-119
OptionalArgs(s) ==
     (IF s.dictionary # None
        THEN << Flag("optional", "dict", StrVal(s.dictionary[1])) >> ELSE <<>>)
  \o (IF s.exec_timeout # None /\ s.exec_timeout[1] # 0
        THEN << Flag("optional", "timeout", TrueDivThousand(s.exec_timeout[1])) >> ELSE <<>>)
  \o (IF s.post_stats
        THEN << Flag("optional", "print_final_stats", IntVal(1)) >> ELSE <<>>)

\* lines 121-126
PositionalArgs(s) ==
     << Positional(s.push_dir[1]) >>
  \o (IF s.input_seeds # None THEN << Positional(s.input_seeds[1]) >> ELSE <<>>)

\* variant: the positional arguments appended before the optional flags
CmdPositionalsEarly(s) ==
  GuaranteedArgs(s) \o FuzzerArgs(s.fuzzer_args) \o PositionalArgs(s) \o OptionalArgs(s)

\* the cmd property
Cmd(s) == GuaranteedArgs(s) \o FuzzerArgs(s.fuzzer_args) \o OptionalArgs(s) \o PositionalArgs(s)

(***************************************************************************)
(* The object after construction and the inputs of a run                   *)
(***************************************************************************)
StatKeys == {"execs_done", "execs_per_sec", "paths_total", "bitmap_cvg"}
EmptyStats == [k \in StatKeys |-> None]

\* no populate_stats call is running
Idle == [at |-> "idle", batch |-> <<>>, i |-> 0]

\* --fuzzer_args: (key, Optional value) pairs
ArgPairs ==
  { <<"jobs", Some("4")>>, <<"only_ascii", None>>,
    <<"workers", Some("4")>>, <<"dict", Some("d2")>> }

SeqsUpTo(S, n) == UNION {[1..m -> S] : m \in 0..n}

MemLimits == {2048}
MaxInputSizes == {8192}
ExecTimeouts == {None, Some(0), Some(1500), Some(2000)}
Dictionaries == {None, Some(<<"/", "dict.txt">>)}
InputSeeds == {None, Some(<<"/", "seeds">>)}
Binaries == {None, Some(<<"harness">>)}

NewObject(binary, blackbox, seeds, mem, maxlen, args, dict, timeout, post) ==
  [ binary |-> binary, fuzzer_exe |-> None, blackbox |-> blackbox,
    output_test_dir |-> OutDir,
    push_dir |-> None, pull_dir |-> None, crash_dir |-> None,
    input_seeds |-> seeds, mem_limit |-> mem, max_input_size |-> maxlen,
    fuzzer_args |-> args, dictionary |-> dict, exec_timeout |-> timeout,
    post_stats |-> post, stats |-> EmptyStats, proc |-> FALSE ]

Init ==
  /\ \E binary \in Binaries, blackbox \in BOOLEAN, seeds \in InputSeeds,
        mem \in MemLimits, maxlen \in MaxInputSizes,
        args \in SeqsUpTo(ArgPairs, MaxArgs), dict \in Dictionaries,
        timeout \in ExecTimeouts, post \in BOOLEAN :
       self = NewObject(binary, blackbox, seeds, mem, maxlen, args, dict, timeout, post)
  /\ fs \in {f \in SUBSET FsEntries : WellFormedFs(f)}
  /\ phase = "start"
  /\ error = ""
  /\ built = None
  /\ stderr = <<>>
  /\ emitted = <<>>
  /\ closed = FALSE
  /\ call = Idle
  /\ resuming = None
  /\ supplied_seeds = self.input_seeds

(***************************************************************************)
(* The main flow: pre_exec, cmd, launch of the engine                      *)
(***************************************************************************)
PreExec ==
  /\ phase = "start"
  /\ LET out == PreExecOutcome(self, fs) IN
       /\ self' = out.self
       /\ fs' = out.fs
       /\ error' = out.error
       /\ resuming' = out.resuming
       /\ phase' = IF out.error = "" THEN "prepared" ELSE "failed"
  /\ UNCHANGED <<built, stderr, emitted, closed, call, supplied_seeds>>

\* variant: building the command consumes input_seeds
BuildCmdConsumesSeeds ==
  /\ phase = "prepared"
  /\ built' = Some(Cmd(self))
  /\ self' = [self EXCEPT !.input_seeds = None]
  /\ UNCHANGED <<fs, phase, error, stderr, emitted, closed, call, resuming, supplied_seeds>>

BuildCmd ==
  /\ phase = "prepared"
  /\ built' = Some(Cmd(self))
  /\ UNCHANGED <<self, fs, phase, error, stderr, emitted, closed, call, resuming, supplied_seeds>>

\* FuzzerFrontend.run: the engine is started with [fuzzer_exe] + cmd
Launch ==
  /\ phase = "prepared"
  /\ built # None
  /\ self' = [self EXCEPT !.proc = TRUE]
  /\ phase' = "running"
  /\ UNCHANGED <<fs, error, built, stderr, emitted, closed, call, resuming, supplied_seeds>>

Next == PreExec \/ BuildCmd \/ Launch

Spec == Init /\ [][Next]_vars

(***************************************************************************)
(* Byte strings: the operations populate_stats applies to a line           *)
(***************************************************************************)
Whitespace == {" ", "\n", "\t"}

\* b.startswith(prefix)
StartsWith(b, prefix) ==
  Len(b) >= Len(prefix) /\ SubSeq(b, 1, Len(prefix)) = prefix

\* the positions at which sub occurs in b
Occurrences(b, sub) ==
  {i \in 1..(Len(b) - Len(sub) + 1) : SubSeq(b, i, i + Len(sub) - 1) = sub}

\* sub in b
Contains(b, sub) == Occurrences(b, sub) # {}

Min(S) == CHOOSE x \in S : \A y \in S : x <= y

\* b.split(sep, 1)[0] and b.split(sep, 1)[1], for b that contains sep
SplitHead(b, sep) == SubSeq(b, 1, Min(Occurrences(b, sep)) - 1)
SplitTail(b, sep) == SubSeq(b, Min(Occurrences(b, sep)) + Len(sep), Len(b))

RECURSIVE LStrip(_, _)
\* b.lstrip(chars)
LStrip(b, chars) ==
  IF Len(b) > 0 /\ b[1] \in chars THEN LStrip(Tail(b), chars) ELSE b

RECURSIVE RStrip(_, _)
\* b.rstrip(chars)
RStrip(b, chars) ==
  IF Len(b) > 0 /\ b[Len(b)] \in chars
    THEN RStrip(SubSeq(b, 1, Len(b) - 1), chars) ELSE b

\* b.strip() and b.strip(chars)
Strip(b) == RStrip(LStrip(b, Whitespace), Whitespace)
StripChars(b, chars) == RStrip(LStrip(b, chars), chars)

RECURSIVE UntilWhitespace(_)
UntilWhitespace(b) ==
  IF Len(b) = 0 \/ b[1] \in Whitespace THEN <<>>
  ELSE <<b[1]>> \o UntilWhitespace(Tail(b))

\* b.split()[0], for b with a non-whitespace character
FirstWord(b) == UntilWhitespace(LStrip(b, Whitespace))

\* b.decode(): the same characters, for ASCII bytes
Decode(b) == b

(***************************************************************************)
(* The stderr stream of the engine                                         *)
(***************************************************************************)
Marker ==
  <<"E", "X", "T", "E", "R", "N", "A", "L", ":", " ">>
Colon ==
  <<":">>
Hash ==
  <<"#">>
KeySep ==
  <<":", " ">>
KeyExecs ==
  <<"e", "x", "e", "c", "/", "s">>
KeyUnits ==
  <<"u", "n", "i", "t", "s">>
KeyCov ==
  <<"c", "o", "v">>

LineStart1 ==
  <<"E", "X", "T", "E", "R", "N", "A", "L", ":", " ", "#", "1", "\n">>
LineStart2 ==
  <<"E", "X", "T", "E", "R", "N", "A", "L", ":", " ", "#", "2", " ", "N",
  "E", "W", "\n">>
LineExecs ==
  <<"E", "X", "T", "E", "R", "N", "A", "L", ":", " ", "e", "x", "e", "c",
  "/", "s", ":", " ", "7", "\n">>
LineUnits ==
  <<"E", "X", "T", "E", "R", "N", "A", "L", ":", " ", "u", "n", "i", "t",
  "s", ":", " ", "3", "\n">>
LineCov ==
  <<"E", "X", "T", "E", "R", "N", "A", "L", ":", " ", "c", "o", "v", ":",
  " ", "5", "\n">>
LineBlank ==
  <<"E", "X", "T", "E", "R", "N", "A", "L", ":", " ", "\n">>
LineEmpty ==
  <<"\n">>
LineForeign ==
  <<"x", ":", " ", "e", "x", "e", "c", "/", "s", ":", " ", "8", "\n">>
LineInfo ==
  <<"E", "X", "T", "E", "R", "N", "A", "L", ":", " ", "I", "N", "F", "O",
  ":", " ", "L", "o", "a", "d", "e", "d", " ", "1", " ", "m", "o", "d",
  "u", "l", "e", "s", " ", " ", " ", "(", "1", "4", " ", "i", "n", "l",
  "i", "n", "e", " ", "8", "-", "b", "i", "t", " ", "c", "o", "u", "n",
  "t", "e", "r", "s", ")", ":", " ", "1", "4", " ", "[", "0", "x", "5",
  "a", "4", "e", "d", "0", ",", " ", "0", "x", "5", "a", "4", "e", "d",
  "e", ")", ",", " ", "\n">>

\* the lines the engine may write
Lines ==
  { LineStart1, LineStart2, LineExecs, LineUnits, LineCov, LineBlank,
    LineEmpty, LineForeign, LineInfo }

ReadHint == 100

RECURSIVE LinesToRead(_, _, _)
\* how many lines of buf readlines(hint) returns: it stops after the line
\* with which the bytes read reach hint, or when nothing is left to read
LinesToRead(buf, hint, total) ==
  IF Len(buf) = 0 THEN 0
  ELSE IF total + Len(buf[1]) >= hint THEN 1
  ELSE 1 + LinesToRead(Tail(buf), hint, total + Len(buf[1]))

\* variant: the batch is returned newest line first
ReadlinesNewestFirst(buf, hint) ==
  LET n == LinesToRead(buf, hint, 0) IN
    [lines |-> [i \in 1..n |-> buf[n + 1 - i]], rest |-> SubSeq(buf, n + 1, Len(buf))]

\* proc.stderr.readlines(hint): the lines returned and what stays unread
Readlines(buf, hint) ==
  LET n == LinesToRead(buf, hint, 0) IN
    [lines |-> SubSeq(buf, 1, n), rest |-> SubSeq(buf, n + 1, Len(buf))]

(***************************************************************************)
(* LibFuzzer.populate_stats                                                *)
(***************************************************************************)
\* variant: the assignment replaces the dict by a new one
StoreStatFresh(st, key, value) == [EmptyStats EXCEPT ![key] = Some(value)]

\* self.stats[key] = value
StoreStat(st, key, value) == [st EXCEPT ![key] = Some(value)]

\* variant: the last branch is a plain else
StoreMetricElseCov(st, line) ==
  IF Contains(line, KeySep)
    THEN LET key == SplitHead(line, KeySep)
             value == SplitTail(line, KeySep) IN
           IF key = KeyExecs THEN StoreStat(st, "execs_per_sec", Decode(value))
           ELSE IF key = KeyUnits THEN StoreStat(st, "paths_total", Decode(value))
           ELSE StoreStat(st, "bitmap_cvg", Decode(value))
    ELSE st

\* lines 155-162: one line of the inner loop, already split and stripped
StoreMetric(st, line) ==
  IF Contains(line, KeySep)
    THEN LET key == SplitHead(line, KeySep)
             value == SplitTail(line, KeySep) IN
           IF key = KeyExecs THEN StoreStat(st, "execs_per_sec", Decode(value))
           ELSE IF key = KeyUnits THEN StoreStat(st, "paths_total", Decode(value))
           ELSE IF key = KeyCov THEN StoreStat(st, "bitmap_cvg", Decode(value))
           ELSE st
    ELSE st

RECURSIVE InnerLoop(_, _, _)
\* lines 149-162: the inner loop over a batch, from its j-th line on
InnerLoop(batch, j, st) ==
  IF j > Len(batch) THEN [stats |-> st, done_reading |-> FALSE, raised |-> ""]
  ELSE IF ~Contains(batch[j], Colon)
    THEN [stats |-> st, done_reading |-> FALSE, raised |-> "IndexError"]
  ELSE LET line == Strip(SplitTail(batch[j], Colon)) IN
    IF line = <<>> \/ line = <<"\n">>
      THEN [stats |-> st, done_reading |-> TRUE, raised |-> ""]
      ELSE InnerLoop(batch, j + 1, StoreMetric(st, line))

RECURSIVE OuterLoop(_, _, _, _)
\* lines 139-147: the outer loop over a batch, from its i-th line on, up to
\* the point where it ends (at "idle") or is about to read the stream again
\* for the inner loop (at "inner", on line i)
OuterLoop(batch, i, st, done_reading) ==
  IF i > Len(batch) \/ done_reading THEN [at |-> "idle", i |-> 0, stats |-> st]
  ELSE IF StartsWith(batch[i], Marker)
    THEN LET line == Strip(SplitTail(batch[i], Colon)) IN
      IF StartsWith(line, Hash)
        THEN [at |-> "inner", i |-> i,
              stats |-> StoreStat(st, "execs_done",
                                  Decode(StripChars(FirstWord(line), {"#"})))]
        ELSE OuterLoop(batch, i + 1, st, done_reading)
    ELSE OuterLoop(batch, i + 1, st, done_reading)

\* the engine writes one more line to its stderr
Emit ==
  /\ phase = "running"
  /\ ~closed
  /\ Len(emitted) < MaxEmit
  /\ \E line \in Lines :
       /\ stderr' = Append(stderr, line)
       /\ emitted' = Append(emitted, line)
  /\ UNCHANGED <<self, fs, phase, error, built, closed, call, resuming, supplied_seeds>>

\* the stream is closed (the engine was interrupted or has exited)
CloseStream ==
  /\ phase = "running"
  /\ call.at = "idle"
  /\ ~closed
  /\ closed' = TRUE
  /\ UNCHANGED <<self, fs, phase, error, built, stderr, emitted, call, resuming,
                 supplied_seeds>>

\* variant: the call reads the stream without looking at proc and closed
PopulateStatsUnguarded ==
  /\ phase = "running"
  /\ call.at = "idle"
  /\ LET r == Readlines(stderr, ReadHint)
         o == OuterLoop(r.lines, 1, self.stats, FALSE) IN
       /\ stderr' = r.rest
       /\ self' = [self EXCEPT !.stats = o.stats]
       /\ call' = IF o.at = "inner"
                    THEN [at |-> "inner", batch |-> r.lines, i |-> o.i]
                    ELSE Idle
  /\ UNCHANGED <<fs, phase, error, built, emitted, closed, resuming, supplied_seeds>>

\* lines 131-147: a call of populate_stats, up to its end or to the second
\* read of the stream
PopulateStats ==
  /\ phase = "running"
  /\ call.at = "idle"
  /\ IF ~self.proc \/ closed
       THEN UNCHANGED <<self, stderr, call>>
       ELSE LET r == Readlines(stderr, ReadHint)
                o == OuterLoop(r.lines, 1, self.stats, FALSE) IN
              /\ stderr' = r.rest
              /\ self' = [self EXCEPT !.stats = o.stats]
              /\ call' = IF o.at = "inner"
                           THEN [at |-> "inner", batch |-> r.lines, i |-> o.i]
                           ELSE Idle
  /\ UNCHANGED <<fs, phase, error, built, emitted, closed, resuming, supplied_seeds>>

\* lines 149-162 and the rest of the outer loop: the call reads the stream
\* again, runs the inner loop and goes on with the outer batch
InnerRead ==
  /\ phase = "running"
  /\ call.at = "inner"
  /\ LET r == Readlines(stderr, ReadHint)
         n == InnerLoop(r.lines, 1, self.stats) IN
       /\ stderr' = r.rest
       /\ IF n.raised # ""
            THEN /\ self' = [self EXCEPT !.stats = n.stats]
                 /\ error' = n.raised
                 /\ phase' = "crashed"
                 /\ call' = Idle
            ELSE LET o == OuterLoop(call.batch, call.i + 1, n.stats, n.done_reading) IN
                   /\ self' = [self EXCEPT !.stats = o.stats]
                   /\ call' = IF o.at = "inner"
                                THEN [at |-> "inner", batch |-> call.batch, i |-> o.i]
                                ELSE Idle
                   /\ UNCHANGED <<error, phase>>
  /\ UNCHANGED <<fs, built, emitted, closed, resuming, supplied_seeds>>

\* a running session: fresh output directory, harness given, engine started
RunningObject ==
  LET out == PreExecOutcome(
               NewObject(Some(<<"harness">>), FALSE, None, 2048, 8192, <<>>,
                         None, None, FALSE), {}) IN
    [self |-> [out.self EXCEPT !.proc = TRUE], fs |-> out.fs]

InitStats ==
  /\ self = RunningObject.self
  /\ fs = RunningObject.fs
  /\ phase = "running"
  /\ error = ""
  /\ built = Some(Cmd(self))
  /\ stderr = <<>>
  /\ emitted = <<>>
  /\ closed = FALSE
  /\ call = Idle
  /\ resuming = Some(FALSE)
  /\ supplied_seeds = None

NextStats == Emit \/ PopulateStats \/ InnerRead \/ CloseStream

SpecStats == InitStats /\ [][NextStats]_vars

(***************************************************************************)
(* Properties of session preparation and of the built command              *)
(***************************************************************************)
RequiredNames == {"rss_limit_mb", "max_len", "artifact_prefix", "workers", "reload", "runs"}
OptionalNames == {"dict", "timeout", "print_final_stats"}

SecRank(tok) ==
  CASE tok.sec = "required" -> 0
    [] tok.sec = "passthrough" -> 1
    [] tok.sec = "optional" -> 2
    [] tok.sec = "positional" -> 3

TokensOf(c, sec) == {i \in 1..Len(c) : c[i].sec = sec}

\* C1: in the built command the required flags (all six names) come first,
\* then one passthrough flag per fuzzer_args pair, then the optional flags
\* (dict, timeout, print_final_stats), then the dash-less positional
\* arguments; no token of a later group precedes a token of an earlier one.
CmdGroupsInOrder ==
  built # None =>
    LET c == built[1] IN
      /\ \A i, j \in 1..Len(c) : i < j => SecRank(c[i]) <= SecRank(c[j])
      /\ {c[i].key : i \in TokensOf(c, "required")} = RequiredNames
      /\ Cardinality(TokensOf(c, "passthrough")) = Len(self.fuzzer_args)
      /\ \A i \in TokensOf(c, "passthrough") : c[i].key \in {a[1] : a \in ArgPairs}
      /\ \A i \in TokensOf(c, "optional") : c[i].dash /\ c[i].key \in OptionalNames
      /\ \A i \in 1..Len(c) : (c[i].sec = "positional") <=> ~c[i].dash

\* a command with tokens of all four groups, two of them positional
CmdAllGroupsBuilt ==
  /\ built # None
  /\ \A sec \in {"required", "passthrough", "optional"} : TokensOf(built[1], sec) # {}
  /\ Cardinality(TokensOf(built[1], "positional")) = 2

SeedInCmd(c) ==
  /\ supplied_seeds # None
  /\ \E i \in 1..Len(c) : c[i] = Positional(supplied_seeds[1])

\* C2: after pre_exec and cmd the seed directory is in the command iff the
\* session is fresh and a seed path was supplied; when present it is the
\* last token, right after the push directory (else the push directory is
\* the last token).
SeedIffFreshAndSupplied ==
  built # None =>
    LET c == built[1]
        n == Len(built[1]) IN
      /\ SeedInCmd(c) <=> (resuming = Some(FALSE) /\ supplied_seeds # None)
      /\ SeedInCmd(c) => /\ c[n] = Positional(supplied_seeds[1])
                         /\ c[n - 1] = Positional(QueueDir)
                         /\ \A i \in 1..(n - 2) : c[i].dash
      /\ ~SeedInCmd(c) => /\ c[n] = Positional(QueueDir)
                          /\ \A i \in 1..(n - 1) : c[i].dash

\* a resumed session with a supplied seed path whose command has been built
SeedDroppedOnResume ==
  built # None /\ resuming = Some(TRUE) /\ supplied_seeds # None

\* pre_exec runs in this step and reaches the session layout (lines 71-83)
PreExecLayoutStep ==
  phase = "start" /\ phase' # "start" /\ self.binary # None /\ ~self.blackbox

\* C3: pre_exec on an empty output directory creates pushDir and crashDir
\* (and records them) with resuming = false; on a non-empty one holding both
\* it gives resuming = true and leaves the filesystem as it was.
PreExecFreshOrResume ==
  [][ PreExecLayoutStep =>
        /\ Listdir(fs, OutDir) = {} =>
             /\ QueueDir \in fs' /\ CrashesDir \in fs'
             /\ self'.push_dir = Some(QueueDir) /\ self'.crash_dir = Some(CrashesDir)
             /\ resuming' = Some(FALSE) /\ phase' = "prepared"
        /\ (Listdir(fs, OutDir) # {} /\ QueueDir \in fs /\ CrashesDir \in fs) =>
             /\ fs' = fs
             /\ resuming' = Some(TRUE) /\ phase' = "prepared" ]_vars

\* a fresh session whose two directories now exist
FreshSessionPrepared ==
  phase = "prepared" /\ resuming = Some(FALSE) /\ {QueueDir, CrashesDir} \subseteq fs

\* C4: pre_exec on a non-empty output directory lacking pushDir or crashDir
\* raises, creates nothing, and a failed run never launches the engine.
PreExecMissingDirFails ==
  [][ /\ (PreExecLayoutStep /\ Listdir(fs, OutDir) # {}
            /\ (QueueDir \notin fs \/ CrashesDir \notin fs)) =>
           /\ error' = "FuzzFrontendError: missing directory"
           /\ fs' = fs
           /\ phase' = "failed"
      /\ phase = "failed" => (phase' = "failed" /\ ~self'.proc /\ fs' = fs) ]_vars

\* a run that failed on a non-empty output directory
ResumeRejected ==
  /\ phase = "failed" /\ error = "FuzzFrontendError: missing directory"
  /\ Listdir(fs, OutDir) # {} /\ ~self.proc

TimeoutTokens(c) == {i \in 1..Len(c) : c[i].dash /\ c[i].key = "timeout"}

\* C8: for every set timeout t (ms) the command has exactly one timeout flag
\* and its value is the integer t \div 1000.
TimeoutTruncatedSeconds ==
  (built # None /\ self.exec_timeout # None /\ self.exec_timeout[1] > 0) =>
    LET c == built[1] IN
      /\ Cardinality(TimeoutTokens(c)) = 1
      /\ \A i \in TimeoutTokens(c) : c[i].val = IntVal(self.exec_timeout[1] \div 1000)

WorkersTokens(c) == {i \in 1..Len(c) : c[i].dash /\ c[i].key = "workers"}

\* C9: every built command has exactly one workers flag, with value 1.
WorkersAlwaysOne ==
  built # None =>
    LET c == built[1] IN
      /\ Cardinality(WorkersTokens(c)) = 1
      /\ \A i \in WorkersTokens(c) : c[i].val = IntVal(1)

\* C10: no command is yielded when a passthrough key is a reserved
\* (required-flag) name.
ReservedKeyRejected ==
  (\E i \in 1..Len(self.fuzzer_args) : self.fuzzer_args[i][1] \in RequiredNames) =>
    built = None

(***************************************************************************)
(* Properties of the stats parser (under SpecStats)                        *)
(***************************************************************************)
\* C5: populate_stats never raises, whatever the lines and their chunking.
StatsNeverRaises == error = "" /\ phase # "crashed"

\* C6: after the three lines 'EXTERNAL: #1', 'EXTERNAL: exec/s: 7',
\* 'EXTERNAL: ' were written in that order and the parser has consumed all of
\* them, the snapshot has execs_done = 1 and execs_per_sec = 7.
ThreeLineBlockHarvested ==
  ( /\ emitted = <<LineStart1, LineExecs, LineBlank>>
    /\ stderr = <<>> /\ call.at = "idle" /\ phase = "running" ) =>
    /\ self.stats["execs_done"] = Some(<<"1">>)
    /\ self.stats["execs_per_sec"] = Some(<<"7">>)

\* the text by which a line of the stream carries a metric
MetricText(k) ==
  CASE k = "execs_done" -> Hash
    [] k = "execs_per_sec" -> KeyExecs \o KeySep
    [] k = "paths_total" -> KeyUnits \o KeySep
    [] k = "bitmap_cvg" -> KeyCov \o KeySep

\* the lines a step of populate_stats works on: what it reads from the stream
\* in this step and what is left of the batch read before
LinesOfStep ==
  {stderr[i] : i \in 1..(Len(stderr) - Len(stderr'))}
    \cup {call.batch[i] : i \in (call.i + 1)..Len(call.batch)}

\* C7: the snapshot is never reset: a key once present stays present, and a
\* value changes only in a step that works on a line carrying that metric
\* and the new value.
StatsNeverReset ==
  [][ \A k \in StatKeys :
        /\ self.stats[k] # None => self'.stats[k] # None
        /\ self'.stats[k] # self.stats[k] =>
             \E line \in LinesOfStep :
               /\ Contains(line, MetricText(k))
               /\ Contains(line, self'.stats[k][1]) ]_vars

\* two metrics are in the snapshot and a later line carrying neither of them
\* has been consumed
StatsKeptAfterUnrelatedLine ==
  /\ self.stats["execs_done"] # None /\ self.stats["execs_per_sec"] # None
  /\ stderr = <<>> /\ call.at = "idle" /\ Len(emitted) > 0
  /\ emitted[Len(emitted)] \in {LineInfo, LineBlank, LineUnits}

(***************************************************************************)
(* Further properties of the main flow (under Spec)                        *)
(***************************************************************************)
\* C11: when blackbox mode is requested no step computes a session directory,
\* creates anything in the filesystem or starts the engine: the run stays at
\* its start or has failed.
BlackboxRejectedFirst ==
  [][ self.blackbox =>
        /\ fs' = fs
        /\ self'.push_dir = None /\ self'.pull_dir = None /\ self'.crash_dir = None
        /\ ~self'.proc
        /\ phase' \in {"start", "failed"} ]_vars

\* pre_exec has rejected a blackbox request made with a harness binary on an
\* empty output directory
BlackboxRejected ==
  /\ self.blackbox /\ self.binary # None
  /\ phase = "failed" /\ error = "FuzzFrontendError: Blackbox not supported"
  /\ fs = {} /\ self.push_dir = None /\ ~self.proc

\* C12: building the command changes neither the object (configuration,
\* session paths, snapshot) nor the filesystem, and a build on an unchanged
\* object returns the token list the build before it returned.
CmdPureAndRepeatable ==
  [][ (phase = "prepared" /\ phase' = "prepared") =>
        /\ self' = self /\ fs' = fs /\ resuming' = resuming
        /\ built # None => built' = built ]_vars

\* a command built from a configuration with passthrough flags, a timeout and
\* a seed directory
CmdBuiltFromFullConfig ==
  /\ phase = "prepared" /\ built # None
  /\ Len(self.fuzzer_args) > 0 /\ self.exec_timeout # None /\ self.input_seeds # None
  /\ Len(built[1]) >= 10

(***************************************************************************)
(* Further properties of the stats parser (under SpecStats)                *)
(***************************************************************************)
\* the lines populate_stats has taken off the stream so far
Consumed == SubSeq(emitted, 1, Len(emitted) - Len(stderr))

\* the whole stream written so far has been read and no call is running
StreamDrained == stderr = <<>> /\ call.at = "idle" /\ phase = "running"

\* C13: a step of the parser that works only on lines without the
\* 'EXTERNAL: ' marker leaves the snapshot as it was, in the outer loop and in
\* the inner loop alike.
ForeignLinesIgnored ==
  [][ (LinesOfStep # {} /\ \A line \in LinesOfStep : ~StartsWith(line, Marker)) =>
        self'.stats = self.stats ]_vars

\* C14: when the call before ended right after a block-start line (no
\* terminator seen yet) and the next call finds exactly the line
\* 'EXTERNAL: exec/s: 7' on the stream, that call stores execs_per_sec = 7.
BlockContinuesInNextCall ==
  [][ ( /\ phase = "running" /\ call.at = "idle" /\ ~closed
        /\ Len(Consumed) > 0
        /\ Consumed[Len(Consumed)] \in {LineStart1, LineStart2}
        /\ stderr = <<LineExecs>>
        /\ stderr' = <<>> ) =>
        self'.stats["execs_per_sec"] = Some(<<"7">>) ]_vars

\* C15: the lines after a block terminator are not lost: once the stream
\* 'EXTERNAL: #1', 'EXTERNAL: ', 'EXTERNAL: #2 NEW' has been read completely
\* and the parser is at rest, execs_done is 2.
LinesAfterTerminatorKept ==
  (emitted = <<LineStart1, LineBlank, LineStart2>> /\ StreamDrained) =>
    self.stats["execs_done"] = Some(<<"2">>)

\* C16: a call that has assigned execs_done (it is at its inner loop) does
\* not assign it again: its next step (the engine's writes aside) ends the
\* call and leaves execs_done.
OneBlockPerCall ==
  [][ (call.at = "inner" /\ phase = "running" /\ emitted' = emitted) =>
        /\ call'.at = "idle"
        /\ self'.stats["execs_done"] = self.stats["execs_done"] ]_vars

\* C17: the parser writes only the canonical keys, each from its own source
\* key (a stored value stands in a written line right after '#', 'exec/s: ',
\* 'units: ' or 'cov: ' respectively); an inner-loop step over marker lines
\* with the unknown key INFO leaves the snapshot unchanged, and a 'units'
\* line that follows such a line in the batch is still stored.
UnknownKeysIgnored ==
  /\ [](\A k \in StatKeys :
          self.stats[k] # None =>
            \E i \in 1..Len(emitted) :
              Contains(emitted[i], MetricText(k) \o self.stats[k][1]))
  /\ [][ (call.at = "inner" /\ call.i = Len(call.batch) /\ phase = "running"
            /\ Len(stderr) > 0 /\ stderr' = <<>>) =>
           /\ (\A i \in 1..Len(stderr) : stderr[i] = LineInfo) =>
                (self'.stats = self.stats /\ error' = "")
           /\ stderr = <<LineInfo, LineUnits>> =>
                (self'.stats = [self.stats EXCEPT !["paths_total"] = Some(<<"3">>)]
                   /\ error' = "") ]_vars

\* the inner loop has gone over an INFO line and then stored the units line
UnitsStoredAfterUnknownKey ==
  /\ emitted = <<LineStart1, LineInfo, LineInfo, LineUnits>>
  /\ StreamDrained
  /\ self.stats["paths_total"] = Some(<<"3">>)
  /\ self.stats["bitmap_cvg"] = None

\* the number a decimal text stands for
DigitOf(ch) ==
  CASE ch = "0" -> 0 [] ch = "1" -> 1 [] ch = "2" -> 2 [] ch = "3" -> 3
    [] ch = "4" -> 4 [] ch = "5" -> 5 [] ch = "6" -> 6 [] ch = "7" -> 7
    [] ch = "8" -> 8 [] ch = "9" -> 9

RECURSIVE NumberOf(_)
NumberOf(text) ==
  IF Len(text) = 0 THEN 0
  ELSE 10 * NumberOf(SubSeq(text, 1, Len(text) - 1)) + DigitOf(text[Len(text)])

\* a line 'EXTERNAL: #n ...' and its counter n
IsBlockStart(line) ==
  StartsWith(line, Marker) /\ StartsWith(Strip(SplitTail(line, Colon)), Hash)
CounterOf(line) ==
  NumberOf(StripChars(FirstWord(Strip(SplitTail(line, Colon))), {"#"}))

CountersNonDecreasing(stream) ==
  \A i, j \in 1..Len(stream) :
    (i < j /\ IsBlockStart(stream[i]) /\ IsBlockStart(stream[j])) =>
      CounterOf(stream[i]) <= CounterOf(stream[j])

\* C18: when the block-start counters of the stream are non-decreasing in
\* stream order, no step lowers the number in execs_done.
ExecsDoneMonotone ==
  [][ ( /\ self.stats["execs_done"] # None
        /\ self'.stats["execs_done"] # self.stats["execs_done"]
        /\ CountersNonDecreasing(emitted') ) =>
        /\ self'.stats["execs_done"] # None
        /\ NumberOf(self'.stats["execs_done"][1]) >= NumberOf(self.stats["execs_done"][1])
     ]_vars

\* both counters were written in increasing order and the later one is in
\* the snapshot
ExecsDoneAdvanced ==
  /\ CountersNonDecreasing(emitted)
  /\ \E i, j \in 1..Len(emitted) : i < j /\ emitted[i] = LineStart1 /\ emitted[j] = LineStart2
  /\ self.stats["execs_done"] = Some(<<"2">>)
  /\ StreamDrained

\* C19: a step taken while the stream is closed (or there is no process)
\* reads no line, raises nothing and leaves the snapshot and the call position
\* as they were.
ClosedStreamNotRead ==
  [][ (phase = "running" /\ (closed \/ ~self.proc)) =>
        /\ stderr' = stderr
        /\ self'.stats = self.stats
        /\ error' = "" /\ phase' = "running"
        /\ call' = call ]_vars

\* the stream was closed in the middle of a block, with lines still unread
ClosedInsideBlock ==
  /\ phase = "running" /\ closed /\ call.at = "idle"
  /\ Len(stderr) > 0
  /\ Len(Consumed) > 0 /\ Consumed[Len(Consumed)] = LineExecs
  /\ self.stats["execs_done"] # None

\* C20: a '#' line met while a block is open does not update execs_done: once
\* 'EXTERNAL: #1' and then 'EXTERNAL: #2 NEW' have been read, with no
\* terminator between them, the snapshot still has the counter 1 of the block
\* that was opened.
OpenBlockKeepsCounter ==
  (emitted = <<LineStart1, LineStart2>> /\ StreamDrained) =>
    self.stats["execs_done"] = Some(<<"1">>)

====
